---- MODULE Spec2Model ----
(***************************************************************************)
(* A model of src/src/lib.rs: the propositional expression tree Prop, its  *)
(* CNF rewrite pipeline (bicon_elim, implic_elim, move_not_inward,         *)
(* distribute_or_over_and, split_clause), the knowledge base KB with tell, *)
(* and the shunting-yard parser KB::str_to_prop.                           *)
(*                                                                         *)
(* A Prop is a tuple whose first element is the variant's name:            *)
(*   <<"True">>, <<"False">>, <<"Symbol", name>>, <<"Not", arg>>,          *)
(*   <<"And", lhs, rhs>>, <<"Or", ..>>, <<"Implic", ..>>, <<"Iff", ..>>.   *)
(* A string (a symbol name, a token) is the sequence of its characters,    *)
(* so that the parser's slices &name[1..] and &name[..len-1] are computed. *)
(***************************************************************************)
EXTENDS Naturals, Sequences, FiniteSets

VARIABLES
    sentences,  \* KB.sentences: the stored clauses
    told,       \* the Props handed to tell so far, in order
    outcome,    \* how the last operation ended: "none", "Ok", "Err", "panic"
    input,      \* the Prop an operation of Prop was called on (NoProp: none)
    nnf,        \* cnf: self after move_not_inward
    dist,       \* cnf: self after distribute_or_over_and
    clauses,    \* cnf: the clause list returned
    called,     \* the operation that ran: "none", "tell", "move_not_inward", ...
    tokens,     \* str_to_prop: sentence.split(" ")
    parsed      \* str_to_prop: the Prop returned with Ok

vars == <<sentences, told, outcome, called, input, nnf, dist, clauses, tokens, parsed>>

\* ------------------------------------------------------------ bounds
MaxNodes == 6
MaxTells == 2
MaxTellNodes == 2
MaxTokens == 5
MaxPassNodes == 5

\* ------------------------------------------------------------ Prop
true_literal == <<"True">>
false_literal == <<"False">>
symbol(name) == <<"Symbol", name>>
not(p) == <<"Not", p>>
and(lhs, rhs) == <<"And", lhs, rhs>>
or(lhs, rhs) == <<"Or", lhs, rhs>>
implic(lhs, rhs) == <<"Implic", lhs, rhs>>
iff(lhs, rhs) == <<"Iff", lhs, rhs>>

IsLeaf(t) == t[1] \in {"True", "False", "Symbol"}
IsBinary(t) == t[1] \in {"And", "Or", "Implic", "Iff"}

\* What a panic!() leaves in place of a result.
Panic == <<"panic">>
\* Where no Prop is held.
NoProp == <<"none">>

\* Prop::eval; the model is the set of names mapped to true, every other
\* name being false (the closed-world unwrap_or_else).
RECURSIVE eval(_, _)
eval(t, model) ==
    CASE t[1] = "True" -> TRUE
      [] t[1] = "False" -> FALSE
      [] t[1] = "Symbol" -> t[2] \in model
      [] t[1] = "Not" -> ~eval(t[2], model)
      [] t[1] = "And" -> eval(t[2], model) /\ eval(t[3], model)
      [] t[1] = "Or" -> eval(t[2], model) \/ eval(t[3], model)
      [] t[1] = "Implic" -> ~eval(t[2], model) \/ eval(t[3], model)
      [] t[1] = "Iff" -> eval(t[2], model) = eval(t[3], model)

\* Prop::bicon_elim: children first, then an Iff at this node.
RECURSIVE bicon_elim(_)
bicon_elim(t) ==
    IF IsLeaf(t) THEN t
    ELSE IF t[1] = "Not" THEN not(bicon_elim(t[2]))
    ELSE LET lhs == bicon_elim(t[2])
             rhs == bicon_elim(t[3])
         IN  IF t[1] = "Iff"
             THEN and(implic(lhs, rhs), implic(rhs, lhs))
             ELSE <<t[1], lhs, rhs>>

\* Prop::implic_elim: children first, then an Implic at this node.
RECURSIVE implic_elim(_)
implic_elim(t) ==
    IF IsLeaf(t) THEN t
    ELSE IF t[1] = "Not" THEN not(implic_elim(t[2]))
    ELSE LET lhs == implic_elim(t[2])
             rhs == implic_elim(t[3])
         IN  IF t[1] = "Implic"
             THEN or(not(lhs), rhs)
             ELSE <<t[1], lhs, rhs>>

\* A node built from two results, unless one of the calls panicked.
Both(tag, lhs, rhs) ==
    IF lhs = Panic \/ rhs = Panic THEN Panic ELSE <<tag, lhs, rhs>>

\* NotOrArm with the disjunction kept: the De Morgan flip forgotten.
NotOrArmKeepsOr(lhs, rhs) ==
    IF lhs = Panic \/ rhs = Panic THEN Panic ELSE or(not(lhs), not(rhs))

\* The De Morgan arm for Not(Or(lhs, rhs)), lines 148-156: the operands are
\* normalised first and negated afterwards.
NotOrArm(lhs, rhs) ==
    IF lhs = Panic \/ rhs = Panic THEN Panic ELSE and(not(lhs), not(rhs))

\* Prop::move_not_inward.
RECURSIVE move_not_inward(_)
move_not_inward(t) ==
    IF t[1] = "Not" THEN
        LET arg == t[2] IN
        CASE arg[1] = "Not" -> move_not_inward(arg[2])
          [] arg[1] = "And" ->
                Both("Or", move_not_inward(not(arg[2])),
                           move_not_inward(not(arg[3])))
          [] arg[1] = "Or" ->
                NotOrArm(move_not_inward(arg[2]), move_not_inward(arg[3]))
          [] arg[1] = "True" -> false_literal
          [] arg[1] = "False" -> true_literal
          [] arg[1] = "Symbol" -> t
          [] arg[1] \in {"Implic", "Iff"} -> Panic
    ELSE IF t[1] \in {"And", "Or"} THEN
        Both(t[1], move_not_inward(t[2]), move_not_inward(t[3]))
    ELSE IF t[1] \in {"Implic", "Iff"} THEN Panic
    ELSE t

\* Prop::distribute_or_over_and.
RECURSIVE distribute_or_over_and(_)
distribute_or_over_and(t) ==
    IF t[1] = "Or" THEN
        LET lhs == t[2]
            rhs == t[3]
        IN  IF lhs[1] = "And" THEN
                Both("And", distribute_or_over_and(or(lhs[2], rhs)),
                            distribute_or_over_and(or(lhs[3], rhs)))
            ELSE IF rhs[1] = "And" THEN
                Both("And", distribute_or_over_and(or(lhs, rhs[2])),
                            distribute_or_over_and(or(lhs, rhs[3])))
            ELSE t
    ELSE IF t[1] = "And" THEN
        Both("And", distribute_or_over_and(t[2]), distribute_or_over_and(t[3]))
    ELSE IF t[1] = "Not" THEN
        LET arg == distribute_or_over_and(t[2])
        IN  IF arg = Panic THEN Panic ELSE not(arg)
    ELSE IF t[1] \in {"Implic", "Iff"} THEN Panic
    ELSE t

\* The loop of Prop::split_clause: stack is popped at its end.
RECURSIVE SplitLoop(_, _)
SplitLoop(stack, new_clauses) ==
    IF stack = <<>> THEN new_clauses
    ELSE LET prop == stack[Len(stack)]
             rest == SubSeq(stack, 1, Len(stack) - 1)
         IN  IF prop[1] = "And" THEN
                 LET lhsAnd == prop[2][1] = "And"
                     rhsAnd == prop[3][1] = "And"
                     s1 == IF lhsAnd THEN Append(rest, prop[2]) ELSE rest
                     c1 == IF lhsAnd THEN new_clauses
                                     ELSE Append(new_clauses, prop[2])
                     s2 == IF rhsAnd THEN Append(s1, prop[3]) ELSE s1
                     c2 == IF rhsAnd THEN c1 ELSE Append(c1, prop[3])
                 IN  SplitLoop(s2, c2)
             ELSE SplitLoop(rest, Append(new_clauses, prop))

\* Prop::split_clause.
split_clause(t) == SplitLoop(<<t>>, <<>>)

\* cnf with the call of implic_elim left out.
cnf_without_implic_elim(t) ==
    LET b == bicon_elim(t)
        n == move_not_inward(b)
        d == IF n = Panic THEN Panic ELSE distribute_or_over_and(n)
    IN  [nnf |-> n, dist |-> d,
         clauses |-> IF d = Panic THEN <<>> ELSE split_clause(d),
         panicked |-> d = Panic]

\* Prop::cnf, as the record of what each pass left; a panic in a pass ends
\* the call there.
cnf(t) ==
    LET b == bicon_elim(t)
        i == implic_elim(b)
        n == move_not_inward(i)
        d == IF n = Panic THEN Panic ELSE distribute_or_over_and(n)
    IN  [nnf |-> n, dist |-> d,
         clauses |-> IF d = Panic THEN <<>> ELSE split_clause(d),
         panicked |-> d = Panic]

\* ------------------------------------------------------------ parser
AMP == <<"&">>
BAR == <<"|">>
IMP == <<"=", ">">>
IFF == <<"<", "=", ">">>
LPAREN == <<"(">>
RPAREN == <<")">>
TRUE_TOKEN == <<"T", "r", "u", "e">>
FALSE_TOKEN == <<"F", "a", "l", "s", "e">>

Contains(name, ch) == \E i \in 1..Len(name) : name[i] = ch

\* left_paren_symbol.captures(name): the pattern \([[:alpha:]]* is not
\* anchored, so it matches a name that holds a '('.
left_paren_symbol(name) == Contains(name, "(")

\* right_paren_symbol.captures(name): the pattern [[::alpha::]]*\) is not
\* anchored and its class may match nothing, so it matches a name that
\* holds a ')'.
right_paren_symbol(name) == Contains(name, ")")

\* Flushed with "|" missing from the pattern of the "=>" arm.
FlushedImpKeepsBar(op) ==
    CASE op = AMP -> {}
      [] op = BAR -> {AMP}
      [] op = IMP -> {AMP}
      [] op = IFF -> {AMP, BAR, IMP}

\* The pending operators the "while let" of an operator's arm pops off ops
\* before the operator is pushed; the "&" arm has no such loop.
Flushed(op) ==
    CASE op = AMP -> {}
      [] op = BAR -> {AMP}
      [] op = IMP -> {AMP, BAR}
      [] op = IFF -> {AMP, BAR, IMP}

\* A state of the first loop of str_to_prop: the operator stack, the output
\* queue, and whether the function has returned Err(err_msg).
ParseState(ops, expr, err) == [ops |-> ops, expr |-> expr, err |-> err]

\* while let Some(top in which) = ops.last() { expr.push_back(ops.pop()) }
RECURSIVE FlushWhile(_, _, _)
FlushWhile(ops, expr, which) ==
    IF ops # <<>> /\ ops[Len(ops)] \in which
    THEN FlushWhile(SubSeq(ops, 1, Len(ops) - 1),
                    Append(expr, ops[Len(ops)]), which)
    ELSE ParseState(ops, expr, FALSE)

\* loop { let op = ops.pop().ok_or_else(|| err_msg)?; if "(" break; else
\* expr.push_back(op) }
RECURSIVE PopToParen(_, _)
PopToParen(ops, expr) ==
    IF ops = <<>> THEN ParseState(ops, expr, TRUE)
    ELSE LET op == ops[Len(ops)]
             rest == SubSeq(ops, 1, Len(ops) - 1)
         IN  IF op = LPAREN THEN ParseState(rest, expr, FALSE)
             ELSE PopToParen(rest, Append(expr, op))

\* One iteration of "for token in tokens.iter()".
ShuntToken(st, token) ==
    IF token \in {AMP, BAR, IMP, IFF} THEN
        LET f == FlushWhile(st.ops, st.expr, Flushed(token))
        IN  ParseState(Append(f.ops, token), f.expr, FALSE)
    ELSE IF token = LPAREN THEN
        ParseState(Append(st.ops, LPAREN), st.expr, FALSE)
    ELSE IF token = RPAREN THEN
        PopToParen(st.ops, st.expr)
    ELSE IF left_paren_symbol(token) THEN
        ParseState(Append(st.ops, LPAREN), Append(st.expr, Tail(token)), FALSE)
    ELSE IF right_paren_symbol(token) THEN
        PopToParen(st.ops,
                   Append(st.expr, SubSeq(token, 1, Len(token) - 1)))
    ELSE ParseState(st.ops, Append(st.expr, token), FALSE)

\* The for loop over the tokens, left at the first Err.
RECURSIVE Shunt(_, _)
Shunt(st, toks) ==
    IF st.err \/ toks = <<>> THEN st
    ELSE Shunt(ShuntToken(st, Head(toks)), Tail(toks))

\* while !ops.is_empty() { expr.push_back(ops.pop().unwrap()) }
RECURSIVE FlushAll(_, _)
FlushAll(ops, expr) ==
    IF ops = <<>> THEN expr
    ELSE FlushAll(SubSeq(ops, 1, Len(ops) - 1), Append(expr, ops[Len(ops)]))

BinaryOf(op) ==
    CASE op = AMP -> "And"
      [] op = BAR -> "Or"
      [] op = IMP -> "Implic"
      [] op = IFF -> "Iff"

\* The second loop of str_to_prop: the postfix queue evaluated on a stack;
\* Panic stands here for the early return of Err(err_msg).
RECURSIVE EvalPostfix(_, _)
EvalPostfix(expr, stack) ==
    IF expr = <<>> THEN stack
    ELSE LET item == Head(expr) IN
         IF item \in {AMP, BAR, IMP, IFF} THEN
             IF Len(stack) < 2 THEN Panic
             ELSE EvalPostfix(Tail(expr),
                     Append(SubSeq(stack, 1, Len(stack) - 2),
                            <<BinaryOf(item), stack[Len(stack) - 1],
                              stack[Len(stack)]>>))
         ELSE IF item = TRUE_TOKEN THEN
             EvalPostfix(Tail(expr), Append(stack, true_literal))
         ELSE IF item = FALSE_TOKEN THEN
             EvalPostfix(Tail(expr), Append(stack, false_literal))
         ELSE EvalPostfix(Tail(expr), Append(stack, symbol(item)))

\* stack.pop().ok_or_else(|| err_msg): the last operand left, if any.
FinalPop(stack) ==
    IF stack = <<>> THEN [ok |-> FALSE, prop |-> NoProp]
    ELSE [ok |-> TRUE, prop |-> stack[Len(stack)]]

\* KB::str_to_prop on the tokens of sentence.split(" ").
str_to_prop(toks) ==
    LET st == Shunt(ParseState(<<>>, <<>>, FALSE), toks)
        stack == EvalPostfix(FlushAll(st.ops, st.expr), <<>>)
    IN  IF st.err \/ stack = Panic THEN [ok |-> FALSE, prop |-> NoProp]
        ELSE FinalPop(stack)

\* ------------------------------------------------------------ inputs
p == <<"p">>
q == <<"q">>
r == <<"r">>

Leaves == {true_literal, false_literal, symbol(p), symbol(q)}
BinaryTags == {"And", "Or", "Implic", "Iff"}

\* The sequence whose k-th element is the family of the Props of exactly k
\* nodes over Leaves, for k up to n. A family is a set of blocks, a block
\* being the Props of one shape and one choice of operators: drawing a block
\* and then a Prop of it draws every Prop once.
RECURSIVE FamiliesBySize(_)
FamiliesBySize(n) ==
    IF n = 0 THEN <<>>
    ELSE LET prev == FamiliesBySize(n - 1)
         IN  Append(prev,
                 IF n = 1 THEN {Leaves}
                 ELSE {{not(a) : a \in A} : A \in prev[n - 1]}
                      \cup UNION {{{<<tag, a, b>> : a \in A, b \in B}
                                     : tag \in BinaryTags,
                                       A \in prev[k],
                                       B \in prev[n - 1 - k]}
                                  : k \in 1..(n - 2)})

Families == FamiliesBySize(MaxNodes)

\* ------------------------------------------------------------ operations
\* VecAppend with the new elements put in front.
VecPrepend(v, other) == other \o v

\* Vec::append: every element of other is moved to the end of v.
VecAppend(v, other) == v \o other

\* KB::tell(prop): cnf, then the clauses appended; what cnf's passes left
\* is recorded. A panic in a pass leaves the base as it was.
Tell(prop) ==
    /\ outcome # "panic"
    /\ LET res == cnf(prop) IN
        /\ nnf' = res.nnf
        /\ dist' = res.dist
        /\ clauses' = res.clauses
        /\ outcome' = IF res.panicked THEN "panic" ELSE "Ok"
        /\ sentences' = IF res.panicked THEN sentences
                        ELSE VecAppend(sentences, res.clauses)
    /\ called' = "tell"
    /\ input' = prop
    /\ told' = Append(told, prop)
    /\ UNCHANGED <<tokens, parsed>>

\* Prop::move_not_inward called on the Prop as it is.
MoveNotInward ==
    /\ called = "none"
    /\ nnf' = move_not_inward(input)
    /\ outcome' = IF nnf' = Panic THEN "panic" ELSE "Ok"
    /\ called' = "move_not_inward"
    /\ UNCHANGED <<sentences, told, input, dist, clauses, tokens, parsed>>

\* Prop::distribute_or_over_and called on the Prop as it is.
DistributeOrOverAnd ==
    /\ called = "none"
    /\ dist' = distribute_or_over_and(input)
    /\ outcome' = IF dist' = Panic THEN "panic" ELSE "Ok"
    /\ called' = "distribute_or_over_and"
    /\ UNCHANGED <<sentences, told, input, nnf, clauses, tokens, parsed>>

\* KB::str_to_prop called on the sentence whose tokens are drawn.
StrToProp ==
    /\ called = "none"
    /\ LET res == str_to_prop(tokens) IN
        /\ outcome' = IF res.ok THEN "Ok" ELSE "Err"
        /\ parsed' = res.prop
    /\ called' = "str_to_prop"
    /\ UNCHANGED <<sentences, told, input, nnf, dist, clauses, tokens>>

\* ------------------------------------------------------------ specifications
\* KB::empty(), and nothing called yet.
Fresh ==
    /\ sentences = <<>>
    /\ told = <<>>
    /\ outcome = "none"
    /\ called = "none"
    /\ nnf = NoProp
    /\ dist = NoProp
    /\ clauses = <<>>
    /\ tokens = <<>>
    /\ parsed = NoProp

\* The Props told to the base: the small ones, the two of tests::print, and
\* one Prop for each rewrite rule of the pipeline.
TellProps ==
    UNION {UNION Families[n] : n \in 1..MaxTellNodes}
    \cup {implic(and(symbol(p), symbol(q)), symbol(r)),
          or(symbol(q), symbol(r)),
          iff(symbol(p), symbol(q)),
          not(or(not(symbol(p)), symbol(q))),
          or(symbol(p), or(symbol(q), and(symbol(p), symbol(r)))),
          and(and(symbol(p), symbol(q)), and(symbol(q), symbol(r)))}

\* A knowledge base told up to MaxTells Props.
Init == Fresh /\ input = NoProp

Next == \E prop \in TellProps : Len(told) < MaxTells /\ Tell(prop)

Spec == Init /\ [][Next]_vars

\* One tell of any Prop of at most MaxNodes nodes to an empty base.
InitPipeline ==
    /\ Fresh
    /\ \E n \in 1..MaxNodes : \E block \in Families[n] : input \in block

NextPipeline == called = "none" /\ Tell(input)

SpecPipeline == InitPipeline /\ [][NextPipeline]_vars

\* One pass called on its own on any Prop of at most MaxPassNodes nodes.
InitPasses ==
    /\ Fresh
    /\ \E n \in 1..MaxPassNodes : \E block \in Families[n] : input \in block

NextPasses == MoveNotInward \/ DistributeOrOverAnd

SpecPasses == InitPasses /\ [][NextPasses]_vars

\* The tokens a sentence is made of: the operators, the parentheses, a
\* name, a constant, and names glued to a parenthesis.
Alphabet ==
    {AMP, BAR, IMP, IFF, LPAREN, RPAREN, p, TRUE_TOKEN,
     <<"(", "p">>, <<"q", ")">>}

\* One parse of any sentence of at most MaxTokens tokens.
InitParse ==
    /\ sentences = <<>>
    /\ told = <<>>
    /\ outcome = "none"
    /\ called = "none"
    /\ input = NoProp
    /\ nnf = NoProp
    /\ dist = NoProp
    /\ clauses = <<>>
    /\ parsed = NoProp
    /\ \E n \in 1..MaxTokens : tokens \in [1..n -> Alphabet]

NextParse == StrToProp

SpecParse == InitParse /\ [][NextParse]_vars

\* ------------------------------------------------------------ properties
Names == {p, q, r}
Models == SUBSET Names

RECURSIVE HasTag(_, _)
HasTag(t, tag) ==
    \/ t[1] = tag
    \/ t[1] = "Not" /\ HasTag(t[2], tag)
    \/ IsBinary(t) /\ (HasTag(t[2], tag) \/ HasTag(t[3], tag))

\* The conjunction of a clause list under a model.
AndOf(cs, model) == \A i \in 1..Len(cs) : eval(cs[i], model)

\* Every Not is over a Symbol, and there is no Implic and no Iff.
RECURSIVE IsNnf(_)
IsNnf(t) ==
    CASE IsLeaf(t) -> TRUE
      [] t[1] = "Not" -> t[2][1] = "Symbol"
      [] t[1] \in {"And", "Or"} -> IsNnf(t[2]) /\ IsNnf(t[3])
      [] t[1] \in {"Implic", "Iff"} -> FALSE

\* No Or has an And as a child or below.
RECURSIVE NoAndBelowOr(_)
NoAndBelowOr(t) ==
    CASE IsLeaf(t) -> TRUE
      [] t[1] = "Or" -> ~HasTag(t, "And")
      [] t[1] = "Not" -> NoAndBelowOr(t[2])
      [] OTHER -> NoAndBelowOr(t[2]) /\ NoAndBelowOr(t[3])

\* A constant, a literal, or an Or-tree of constants and literals.
RECURSIVE IsClause(_)
IsClause(t) ==
    CASE IsLeaf(t) -> TRUE
      [] t[1] = "Not" -> t[2][1] = "Symbol"
      [] t[1] = "Or" -> IsClause(t[2]) /\ IsClause(t[3])
      [] OTHER -> FALSE

\* C1: the clauses cnf returns for a Prop are together true under a model
\* exactly when the Prop is, for every Prop and every model.
C1_CnfPreservesEval ==
    (called = "tell" /\ outcome = "Ok") =>
        \A model \in Models : eval(input, model) = AndOf(clauses, model)

\* A Prop with an Iff under a Not was told, the distribution pass rewrote it
\* and several clauses came out.
C1_Witness ==
    /\ called = "tell"
    /\ outcome = "Ok"
    /\ input[1] = "Not"
    /\ HasTag(input, "Iff")
    /\ dist # nnf
    /\ Len(clauses) > 1

\* C2: every sentence the base stores after any tells is a single clause.
C2_StoredAreClauses ==
    \A i \in 1..Len(sentences) : IsClause(sentences[i])

\* C3: after bicon_elim, implic_elim and move_not_inward every Not is over a
\* Symbol and only True, False, Symbol, Not, And and Or are left.
C3_NnfAfterMoveNotInward ==
    (called = "tell" /\ outcome = "Ok") => IsNnf(nnf)

\* C4: after the four passes no Or has an And as a child or below it.
C4_NoAndBelowOrAfterDistribute ==
    (called = "tell" /\ outcome = "Ok") => NoAndBelowOr(dist)

\* C8: cnf and tell never reach the panic of a pass, whatever the Prop, and
\* tell returns Ok.
C8_TellNeverPanics ==
    called = "tell" => (outcome = "Ok" /\ nnf # Panic /\ dist # Panic)

\* A Not over a Prop holding both an Iff and an Implic was told.
C8_Witness ==
    /\ called = "tell"
    /\ outcome = "Ok"
    /\ input[1] = "Not"
    /\ HasTag(input, "Iff")
    /\ HasTag(input, "Implic")

\* The two Props of tests::print.
TestFirst == implic(and(symbol(p), symbol(q)), symbol(r))
TestSecond == or(symbol(q), symbol(r))

\* A step of tell leaves the sentences stored before where they were and puts
\* the clauses of cnf(prop), in their order, after them.
AppendsClauses ==
    LET new == cnf(told'[Len(told')]).clauses IN
    /\ Len(sentences') = Len(sentences) + Len(new)
    /\ \A i \in 1..Len(sentences) : sentences'[i] = sentences[i]
    /\ \A j \in 1..Len(new) : sentences'[Len(sentences) + j] = new[j]

\* C9: each tell only appends the clauses of cnf(prop) to what is stored, and
\* telling "p & q => r" and then "q | r" to an empty base stores 2 clauses.
C9_TellAppends ==
    /\ [][told' # told => AppendsClauses]_vars
    /\ [](told = <<TestFirst, TestSecond>> => Len(sentences) = 2)

\* The same Prop was told twice and is stored twice.
C9_Witness ==
    /\ Len(told) = 2
    /\ told[1] = iff(symbol(p), symbol(q))
    /\ told[2] = told[1]
    /\ Len(sentences) = 4
    /\ sentences[3] = sentences[1]

\* C10: move_not_inward and distribute_or_over_and panic on every Prop that
\* holds an Implic or an Iff.
C10_OutOfOrderPanics ==
    (/\ called \in {"move_not_inward", "distribute_or_over_and"}
     /\ (HasTag(input, "Implic") \/ HasTag(input, "Iff")))
        => outcome = "panic"

\* The tokens with a name glued to a parenthesis taken apart.
RECURSIVE Lexemes(_)
Lexemes(toks) ==
    IF toks = <<>> THEN <<>>
    ELSE LET t == Head(toks) IN
         (IF Len(t) > 1 /\ t[1] = "(" THEN <<LPAREN, Tail(t)>>
          ELSE IF Len(t) > 1 /\ t[Len(t)] = ")"
               THEN <<SubSeq(t, 1, Len(t) - 1), RPAREN>>
          ELSE <<t>>) \o Lexemes(Tail(toks))

\* The parentheses still open after each lexeme.
RECURSIVE Depths(_, _)
Depths(lex, open) ==
    IF lex = <<>> THEN <<>>
    ELSE LET now == IF Head(lex) = LPAREN THEN open + 1
                    ELSE IF Head(lex) = RPAREN THEN open - 1
                    ELSE open
         IN  IF now < 0 THEN <<now>> ELSE <<now>> \o Depths(Tail(lex), now)

\* A ')' has no '(' before it, or a '(' is never closed.
Unbalanced(toks) ==
    LET d == Depths(Lexemes(toks), 0) IN d # <<>> /\ d[Len(d)] # 0

\* The operator of each precedence level, the lowest first.
LevelOp(level) ==
    CASE level = 1 -> IFF
      [] level = 2 -> IMP
      [] level = 3 -> BAR
      [] level = 4 -> AMP

RefFail == [ok |-> FALSE, prop |-> NoProp, rest |-> <<>>]

\* The reference parser, by recursive descent: an expression of a level is
\* an expression of the next level, then possibly the level's operator and
\* an expression of the same level; level 5 is an operand or a parenthesised
\* expression of level 1. Operators of one level group to the right.
RECURSIVE RefExpr(_, _)
RefExpr(level, lex) ==
    IF level = 5 THEN
        IF lex = <<>> THEN RefFail
        ELSE IF Head(lex) = LPAREN THEN
            LET inner == RefExpr(1, Tail(lex)) IN
            IF inner.ok /\ inner.rest # <<>> /\ Head(inner.rest) = RPAREN
            THEN [ok |-> TRUE, prop |-> inner.prop, rest |-> Tail(inner.rest)]
            ELSE RefFail
        ELSE IF Head(lex) \in {AMP, BAR, IMP, IFF, RPAREN} THEN RefFail
        ELSE [ok |-> TRUE,
              prop |-> IF Head(lex) = TRUE_TOKEN THEN true_literal
                       ELSE IF Head(lex) = FALSE_TOKEN THEN false_literal
                       ELSE symbol(Head(lex)),
              rest |-> Tail(lex)]
    ELSE
        LET lhs == RefExpr(level + 1, lex) IN
        IF ~lhs.ok THEN RefFail
        ELSE IF lhs.rest # <<>> /\ Head(lhs.rest) = LevelOp(level) THEN
            LET rhs == RefExpr(level, Tail(lhs.rest)) IN
            IF rhs.ok
            THEN [ok |-> TRUE,
                  prop |-> <<BinaryOf(LevelOp(level)), lhs.prop, rhs.prop>>,
                  rest |-> rhs.rest]
            ELSE RefFail
        ELSE lhs

Reference(toks) == RefExpr(1, Lexemes(toks))

\* The operands left on the stack when the postfix queue has been evaluated
\* (0 when the parse ended before that).
OperandsLeft(toks) ==
    LET st == Shunt(ParseState(<<>>, <<>>, FALSE), toks)
        stack == IF st.err THEN Panic
                 ELSE EvalPostfix(FlushAll(st.ops, st.expr), <<>>)
    IN  IF stack = Panic THEN 0 ELSE Len(stack)

\* C5: a sentence whose parentheses are unbalanced, a ')' too many or a '('
\* never closed, is answered with Err.
C5_UnbalancedIsErr ==
    (called = "str_to_prop" /\ Unbalanced(tokens)) => outcome = "Err"

\* C6: the parse is answered with Err unless exactly one operand is left on
\* the stack after the postfix queue.
C6_OneOperandOrErr ==
    (called = "str_to_prop" /\ OperandsLeft(tokens) # 1) => outcome = "Err"

\* C7: a well-formed sentence is answered with the Prop of the reference
\* parser, where & binds tighter than |, | than =>, => than <=>, and
\* parentheses override.
C7_ParsesByPrecedence ==
    called = "str_to_prop" =>
        LET ref == Reference(tokens) IN
        (ref.ok /\ ref.rest = <<>>) => (outcome = "Ok" /\ parsed = ref.prop)

\* "(p & q) => True" was parsed to Implic(And(p, q), True).
C7_Witness ==
    /\ called = "str_to_prop"
    /\ tokens = <<<<"(", "p">>, AMP, <<"q", ")">>, IMP, TRUE_TOKEN>>
    /\ Reference(tokens).ok
    /\ outcome = "Ok"
    /\ parsed = implic(and(symbol(p), symbol(q)), true_literal)

====
